---- MODULE Spec2Model ----
(***************************************************************************)
(* A model of the DifferentialEvolution class of DiffEvo.ipynb: the        *)
(* constructor, population_generator, least_error_idx, the generator       *)
(* diff_evolution_solver and the result property, together with the two    *)
(* pieces of state that live outside an instance: numpy's global random    *)
(* generator (np.random) and the notebook's module-level names kmut and    *)
(* bounds, which the solver reads instead of self.kmut and self.bounds.    *)
(*                                                                         *)
(* Reals are fixed-point integers: the integer v stands for v / Scale.     *)
(* np.random is a small linear congruential generator: what matters is     *)
(* that it is one deterministic stream, seeded by np.random.seed and       *)
(* advanced by every draw of every engine.                                 *)
(***************************************************************************)
EXTENDS Integers, Sequences, FiniteSets, TLC

\* ------------------------------------------------------------ bounds
MaxIter == 2
MaxPop == 2
MaxSeed == 1
MaxRuns == 2

\* ------------------------------------------------- options and vectors
None == << >>
Some(v) == << v >>
IsSome(o) == Len(o) > 0
Get(o) == o[1]

Abs(x) == IF x < 0 THEN 0 - x ELSE x

RECURSIVE SumAbsDev(_, _, _)
SumAbsDev(x, t, j) ==
    IF j > Len(x) THEN 0 ELSE Abs(x[j] - t) + SumAbsDev(x, t, j + 1)

RECURSIVE MinOver(_, _, _)
MinOver(pop, j, k) ==
    IF k = Len(pop) THEN pop[k][j]
    ELSE LET m == MinOver(pop, j, k + 1)
         IN IF pop[k][j] < m THEN pop[k][j] ELSE m

RECURSIVE MaxOver(_, _, _)
MaxOver(pop, j, k) ==
    IF k = Len(pop) THEN pop[k][j]
    ELSE LET m == MaxOver(pop, j, k + 1)
         IN IF pop[k][j] > m THEN pop[k][j] ELSE m

\* ------------------------------------------------------------ np.random
\* The fixed-point scale: a draw of rand() is one of 0/Scale .. (Scale-1)/Scale.
Scale == 4
RngMod == 16
RngStates == 0 .. (RngMod - 1)

\* np.random.seed(seed): a given seed fixes the state; None takes it from
\* the operating system's entropy, i.e. any state.
SeedStates(seed) == IF IsSome(seed) THEN {Get(seed) % RngMod} ELSE RngStates

NextState(s) == (5 * s + 3) % RngMod

RECURSIVE Adv(_, _)
Adv(s, n) == IF n <= 0 THEN s ELSE Adv(NextState(s), n - 1)

\* The n-th draw after state s, as a uniform number in [0, 1) (fixed point).
RandAt(s, n) == (Adv(s, n) * Scale) \div RngMod

\* np.random.choice(idx_list, 2, replace = False): two distinct positions
\* of 1..n from two draws (n >= 2).
ChoiceAt(s, n) ==
    LET a == 1 + ((Adv(s, 1) \div 2) % n)
        k == 1 + ((Adv(s, 2) \div 4) % (n - 1))
        b == 1 + ((a - 1 + k) % n)
    IN << a, b >>

\* ------------------------------------------------------------ evaluators
\* func(x, data): the objective evaluator is the caller's. "sphere" is the
\* distance of x to a target point, "zero" is constant, "flaky" is sphere
\* with calls that may raise.
Target == 3
Funcs == {"sphere", "zero", "flaky"}
Cost(func, x) == IF func = "zero" THEN 0 ELSE SumAbsDev(x, Target, 1)

\* ------------------------------------------------------ configurations
\* Bounds are a tuple of (low, high) pairs, one per parameter.
BndA == [j \in 1 .. 4 |-> << 4, 12 >>]
BndWide == [j \in 1 .. 4 |-> << 0, 16 >>]
BndBad == [j \in 1 .. 4 |-> IF j = 1 THEN << 12, 4 >> ELSE << 4, 12 >>]
GuessIn(n) == [j \in 1 .. n |-> 6]
GuessOut(n) == [j \in 1 .. n |-> 3]

Config(f, km, kc, np, pp, ni, b, g, sd) ==
    [func |-> f, kmut |-> km, kcross |-> kc, nparam |-> np, npop |-> pp,
     niter |-> ni, bounds |-> b, guess |-> g, seed |-> sd]

Seeds == {None} \cup {Some(k) : k \in 0 .. MaxSeed}

\* Configurations the constructor's documentation allows: the ones that
\* exercise the search (four parameters, the distance evaluator) ...
SearchConfigs ==
    { Config("sphere", Scale, 2, 4, pp, ni, b, g, sd) :
        pp \in 1 .. MaxPop, ni \in 0 .. MaxIter,
        b \in {None, Some(BndA)},
        g \in {None, Some(GuessIn(4)), Some(GuessOut(4))},
        sd \in Seeds }

\* ... the other evaluators ...
EvalConfigs ==
    { Config(f, Scale, 2, 4, MaxPop, ni, Some(BndA), None, Some(k)) :
        f \in {"zero", "flaky"}, ni \in 0 .. MaxIter, k \in 0 .. MaxSeed }

\* ... and a single parameter.
OneParamConfigs ==
    { Config("sphere", Scale, 2, 1, MaxPop, 1, b, g, Some(k)) :
        b \in {None, Some(BndA)}, g \in {None, Some(GuessIn(1))},
        k \in 0 .. MaxSeed }

ValidConfigs == SearchConfigs \cup EvalConfigs \cup OneParamConfigs

BaseConfig == Config("sphere", Scale, 2, 4, 2, 1, Some(BndA), None, Some(0))

\* One configuration error each, on an otherwise valid configuration.
InvalidConfigs ==
    { [BaseConfig EXCEPT !.nparam = 0], [BaseConfig EXCEPT !.npop = 0],
      [BaseConfig EXCEPT !.kmut = 0], [BaseConfig EXCEPT !.kmut = 2 * Scale],
      [BaseConfig EXCEPT !.kcross = 0 - 1],
      [BaseConfig EXCEPT !.kcross = Scale + 1],
      [BaseConfig EXCEPT !.bounds = Some(BndBad)] }

Configs == ValidConfigs \cup InvalidConfigs

\* What section 7 of the specification calls a configuration error, and
\* the class documentation's range of kmut.
ConfigError(c) ==
    \/ c.nparam <= 0
    \/ c.npop <= 0
    \/ ~(0 < c.kmut /\ c.kmut <= Scale)
    \/ ~(0 <= c.kcross /\ c.kcross <= Scale)
    \/ /\ IsSome(c.bounds)
       /\ \E j \in 1 .. Len(Get(c.bounds)) :
             Get(c.bounds)[j][1] > Get(c.bounds)[j][2]

\* ------------------------------------------------- population_generator
\* A tuple or list is true when it is not empty; None is false.
Truthy(o) == IsSome(o) /\ Len(Get(o)) > 0

\* pop = np.random.rand(nparam, npop), read member by member (pop.T): the
\* draws fill parameter row ii first, so member k's parameter ii is draw
\* (ii - 1) * npop + k.
RandPop(c, s) ==
    [k \in 1 .. c.npop |->
        [ii \in 1 .. c.nparam |-> RandAt(s, (ii - 1) * c.npop + k)]]

ScalePop(c, raw) ==
    [k \in 1 .. c.npop |->
        [ii \in 1 .. c.nparam |->
            LET lo == Get(c.bounds)[ii][1]
                hi == Get(c.bounds)[ii][2]
            IN lo + ((raw[k][ii] * (hi - lo)) \div Scale)]]

\* Mutant of SetGuess: with bounds, the guess is clipped into them.
SetGuessClipped(c, pop) ==
    [k \in 1 .. c.npop |->
        IF k # 1 THEN pop[k]
        ELSE IF ~Truthy(c.bounds) THEN Get(c.guess)
        ELSE [j \in 1 .. Len(Get(c.guess)) |->
                LET x == Get(c.guess)[j]
                    b == Get(c.bounds)[j]
                IN IF x < b[1] THEN b[1] ELSE IF x > b[2] THEN b[2] ELSE x]]

\* pop[:, 0] = np.array(self.guess): the guess becomes member 0 (here 1).
SetGuess(c, pop) ==
    [k \in 1 .. c.npop |-> IF k = 1 THEN Get(c.guess) ELSE pop[k]]

population_generator(c, s) ==
    IF c.nparam < 0 \/ c.npop < 0
    THEN [err |-> "ValueError", pop |-> << >>, rng |-> s]
    ELSE LET s1 == Adv(s, c.nparam * c.npop)
             raw == RandPop(c, s)
             fail(x) == [err |-> x, pop |-> << >>, rng |-> s1]
         IN IF Truthy(c.bounds) /\ Len(Get(c.bounds)) < c.nparam
            THEN fail("IndexError")
            ELSE IF Truthy(c.bounds) /\ c.nparam = 0
            \* np.array([]) is one-dimensional: pop[:, 0] and, later,
            \* argmin of nothing or pop[0] fail.
            THEN fail(IF ~Truthy(c.guess) /\ c.npop = 0
                      THEN "ValueError" ELSE "IndexError")
            ELSE IF Truthy(c.guess) /\ c.npop = 0
            THEN fail("IndexError")
            ELSE IF Truthy(c.guess) /\ Len(Get(c.guess)) # c.nparam
            THEN fail("ValueError")
            ELSE LET p1 == IF Truthy(c.bounds) THEN ScalePop(c, raw) ELSE raw
                     p2 == IF Truthy(c.guess) THEN SetGuess(c, p1) ELSE p1
                 IN [err |-> "", pop |-> p2, rng |-> s1]

\* ------------------------------------------------------ least_error_idx
\* np.argmin: the first index of the least cost.
RECURSIVE ArgMin(_, _, _)
ArgMin(func, pop, k) ==
    IF k = Len(pop) THEN k
    ELSE LET m == ArgMin(func, pop, k + 1)
         IN IF Cost(func, pop[k]) <= Cost(func, pop[m]) THEN k ELSE m

\* Mutant of least_error_idx: the first member, whatever it costs.
first_error_idx(func, pop) ==
    IF Len(pop) = 0
    THEN [err |-> "ValueError", idx |-> 0, cost |-> 0]
    ELSE [err |-> "", idx |-> 1, cost |-> Cost(func, pop[1])]

least_error_idx(func, pop) ==
    IF Len(pop) = 0
    THEN [err |-> "ValueError", idx |-> 0, cost |-> 0]
    ELSE LET m == ArgMin(func, pop, 1)
         IN [err |-> "", idx |-> m, cost |-> Cost(func, pop[m])]

\* ----------------------------------------------- one inner step (108-121)
\* The length of the crossover mask: np.random.rand(3) and one True.
NCross == 3

\* bestfit + kmut * (pop[r1] - pop[r2]), with the module-level kmut.
Mutate(bestfit, k, a, b) ==
    [j \in 1 .. Len(bestfit) |-> bestfit[j] + ((k * (a[j] - b[j])) \div Scale)]

\* np.concatenate((np.random.rand(3) <= self.kcross, np.array([True])))
Cross(c, s) ==
    [j \in 1 .. (NCross + 1) |->
        IF j <= NCross THEN RandAt(s, j) <= c.kcross ELSE TRUE]

\* np.where(cross, trial, ind): element by element, a vector of length one
\* being broadcast to the mask's length.
Where(cross, trial, ind) ==
    [j \in 1 .. Len(cross) |->
        IF cross[j]
        THEN (IF Len(trial) = 1 THEN trial[1] ELSE trial[j])
        ELSE (IF Len(ind) = 1 THEN ind[1] ELSE ind[j])]

InBound(x, b) == x >= b[1] /\ x <= b[2]

\* Lines 112-114: each component outside the module-level bounds is drawn
\* again between the least and the greatest value of that parameter in the
\* live population.
RECURSIVE Repair(_, _, _, _, _, _)
Repair(trial, j, s, pop, gb, nparam) ==
    IF j > Len(trial)
    THEN [err |-> "", trial |-> trial, rng |-> s]
    ELSE IF j > Len(gb)
    THEN [err |-> "IndexError", trial |-> trial, rng |-> s]
    ELSE IF InBound(trial[j], gb[j])
    THEN Repair(trial, j + 1, s, pop, gb, nparam)
    ELSE IF j > nparam
    THEN [err |-> "IndexError", trial |-> trial, rng |-> s]
    ELSE LET mn == MinOver(pop, j, 1)
             mx == MaxOver(pop, j, 1)
             v == mn + ((RandAt(s, 1) * (mx - mn)) \div Scale)
         IN Repair([trial EXCEPT ![j] = v], j + 1, Adv(s, 1), pop, gb, nparam)

\* Mutant of Better: a tie counts as an improvement.
BetterOrEqual(trial_err, other_err) == trial_err <= other_err

\* Whether the trial replaces the incumbent (line 116), and whether it also
\* becomes the best fit (line 118).
Better(trial_err, other_err) == trial_err < other_err

NoStep == [r1 |-> 0, r2 |-> 0, mutated |-> << >>, cross |-> << >>,
           trial |-> << >>, trial_err |-> 0, ind_err |-> 0]

\* The step of member r.i of run r of an engine configured as c, from the
\* generator state s, with the module-level kmut (gk) and bounds (gb);
\* failAt says which evaluator call, if any, raises.
StepResult(c, r, s, gk, gb, failAt) ==
    LET ind == r.pop[r.i]
        out(x, s2, n, rep, yes, best, log) ==
            [err |-> x, rng |-> s2, calls |-> n, replaced |-> rep,
             improved |-> best, trial |-> yes, log |-> log]
        fail(x, s2, n, log) == out(x, s2, n, FALSE, << >>, FALSE, log)
    IN
    IF c.npop < 2 THEN fail("ValueError", s, 0, NoStep)
    ELSE
    LET rr == ChoiceAt(s, c.npop)
        s1 == Adv(s, 2)
        log1 == [NoStep EXCEPT !.r1 = rr[1], !.r2 = rr[2]]
    IN
    IF ~IsSome(gk) THEN fail("NameError", s1, 0, log1)
    ELSE
    LET mutated == Mutate(r.bestfit, Get(gk), r.pop[rr[1]], r.pop[rr[2]])
        cross == Cross(c, s1)
        s2 == Adv(s1, NCross)
        log2 == [log1 EXCEPT !.mutated = mutated, !.cross = cross]
    IN
    IF Len(mutated) \notin {1, NCross + 1} THEN fail("ValueError", s2, 0, log2)
    ELSE
    LET crossed == Where(cross, mutated, ind)
    IN
    IF ~IsSome(gb) THEN fail("NameError", s2, 0, [log2 EXCEPT !.trial = crossed])
    ELSE
    LET rep == Repair(crossed, 1, s2, r.pop, Get(gb), c.nparam)
        log3 == [log2 EXCEPT !.trial = rep.trial]
    IN
    IF rep.err # "" THEN fail(rep.err, rep.rng, 0, log3)
    ELSE IF failAt = "trial" THEN fail("EvaluatorError", rep.rng, 1, log3)
    ELSE IF failAt = "incumbent" THEN fail("EvaluatorError", rep.rng, 2, log3)
    ELSE
    LET trial_err == Cost(c.func, rep.trial)
        ind_err == Cost(c.func, ind)
        log4 == [log3 EXCEPT !.trial_err = trial_err, !.ind_err = ind_err]
    IN
    IF ~Better(trial_err, ind_err)
    THEN out("", rep.rng, 2, FALSE, rep.trial, FALSE, log4)
    \* pop[i] = trial: a trial of another length than the row does not fit.
    ELSE IF Len(rep.trial) # Len(ind) THEN fail("ValueError", rep.rng, 2, log4)
    ELSE out("", rep.rng, 2, TRUE, rep.trial, Better(trial_err, r.lst_err), log4)

\* ------------------------------------------------------------- state
VARIABLES
    np_random,  \* the state of numpy's global generator
    g_kmut,     \* the notebook's module-level name kmut (None: not defined)
    g_bounds,   \* the notebook's module-level name bounds (None: not defined)
    obj,        \* obj[e]: the fields of instance e (None: not constructed)
    run,        \* run[e]: the frame of e's latest diff_evolution_solver call
    running,    \* the instance whose generator is executing (0: the caller)
    hist,       \* the runs that have ended, in the order they ended
    nruns       \* the number of runs started

vars == << np_random, g_kmut, g_bounds, obj, run, running, hist, nruns >>

Engines == {1}
TwoEngines == {1, 2}

NewRun(e, nth, c, mode, s0, s1, pop, alias, cost, err, calls) ==
    [eng |-> e, nth |-> nth, cfg |-> c, mode |-> mode,
     pc |-> IF err = "" THEN "loop" ELSE "raised",
     pop |-> pop,
     bestfit |-> IF err = "" THEN pop[alias] ELSE << >>,
     alias |-> alias, lst_err |-> cost,
     iter |-> 0, i |-> 1, emitted |-> << >>, err |-> err,
     initpop |-> pop,
     initbest |-> IF err = "" THEN pop[alias] ELSE << >>,
     initerr |-> cost, rng0 |-> s0, rng1 |-> s1,
     trace |-> << >>, calls |-> calls, retval |-> None]

\* What the notebook's cells have bound kmut and bounds to (lines 205 and
\* 299) when the engine is used: the values the engine is given too, or one
\* of them not defined or defined differently.
Globals ==
    { << Some(Scale), Some(BndA) >>, << None, Some(BndA) >>,
      << Some(2 * Scale), Some(BndA) >>, << Some(Scale), None >>,
      << Some(Scale), Some(BndWide) >> }

InitOver(E, G) ==
    /\ np_random \in RngStates
    /\ \E gl \in G : g_kmut = gl[1] /\ g_bounds = gl[2]
    /\ obj = [e \in E |-> None]
    /\ run = [e \in E |-> None]
    /\ running = 0
    /\ hist = << >>
    /\ nruns = 0

\* __init__ (lines 59-69): stores the arguments as they are and seeds the
\* global generator.
Construct(e, c) ==
    /\ running = 0
    /\ obj[e] = None
    /\ obj' = [obj EXCEPT ![e] = Some(c)]
    /\ np_random' \in SeedStates(c.seed)
    /\ UNCHANGED << g_kmut, g_bounds, run, running, hist, nruns >>

\* No generator of e is suspended or executing.
Idle(e) ==
    IF run[e] = None THEN TRUE ELSE Get(run[e]).pc \in {"done", "raised"}

\* Lines 102-105, run by the first next() of a new generator (mode
\* "stream") or by the result property (mode "result"). failAt is the call
\* of the evaluator that raises (0: none).
Start(e, mode, failAt, rerun) ==
    /\ running = 0
    /\ IsSome(obj[e])
    /\ Idle(e)
    /\ rerun \/ run[e] = None
    /\ nruns < MaxRuns
    /\ LET c == Get(obj[e])
           g == population_generator(c, np_random)
           l == least_error_idx(c.func, g.pop)
           raises == failAt > 0
           err == IF g.err # "" THEN g.err
                  ELSE IF l.err # "" THEN l.err
                  ELSE IF raises THEN "EvaluatorError" ELSE ""
           calls == IF g.err # "" \/ l.err # "" THEN 0
                    ELSE IF raises THEN failAt ELSE c.npop
           nth == 1 + Cardinality({n \in 1 .. Len(hist) : hist[n].eng = e})
           r == NewRun(e, nth, c, mode, np_random, g.rng,
                       IF g.err = "" THEN g.pop ELSE << >>,
                       IF err = "" THEN l.idx ELSE 0,
                       IF err = "" THEN l.cost ELSE 0, err, calls)
       IN /\ failAt > 0 => (c.func = "flaky" /\ g.err = "" /\ l.err = ""
                            /\ failAt <= c.npop)
          /\ np_random' = g.rng
          /\ run' = [run EXCEPT ![e] = Some(r)]
          /\ running' = IF err = "" THEN e ELSE 0
          /\ hist' = IF err = "" THEN hist ELSE Append(hist, r)
    /\ nruns' = nruns + 1
    /\ UNCHANGED << g_kmut, g_bounds, obj >>

\* Mutant of LoopGuard: one generation too many.
LoopGuardInclusive(r) == r.iter <= r.cfg.niter

\* The loop header: the generation and the member the next step works on.
LoopGuard(r) == r.iter < r.cfg.niter

Advance(r) ==
    IF r.i < Len(r.pop) THEN [r EXCEPT !.i = r.i + 1]
    ELSE [r EXCEPT !.i = 1, !.iter = r.iter + 1]

\* Mutant of Replace: the trial lands on the next member.
ReplaceNeighbour(pop, i, trial) == [pop EXCEPT ![1 + (i % Len(pop))] = trial]

\* pop[i] = trial (line 117).
Replace(pop, i, trial) == [pop EXCEPT ![i] = trial]

\* Mutant of OnRaise: the trial is stored before the evaluator is called.
OnRaiseCommitted(r, t) ==
    [r EXCEPT !.pc = "raised", !.err = t.err,
              !.pop = IF t.err = "EvaluatorError"
                      THEN [r.pop EXCEPT ![r.i] = t.log.trial] ELSE r.pop]

\* An exception leaves the generator's frame as it is and ends the
\* generator: nothing in lines 106-121 catches it.
OnRaise(r, t) == [r EXCEPT !.pc = "raised", !.err = t.err]

\* Lines 107-121 for the current member.
InnerStep(e, failAt) ==
    /\ running = e
    /\ LET r == Get(run[e])
           c == r.cfg
           t == StepResult(c, r, np_random, g_kmut, g_bounds, failAt)
           logged == Append(r.trace,
                            [g |-> r.iter, i |-> r.i, err |-> t.err,
                             step |-> t.log])
           r1 == [r EXCEPT !.trace = logged, !.calls = r.calls + t.calls]
       IN /\ r.pc = "loop"
          /\ LoopGuard(r)
          /\ failAt # "none" => c.func = "flaky"
          /\ np_random' = t.rng
          /\ IF t.err # ""
             THEN LET r2 == OnRaise(r1, t)
                  IN /\ run' = [run EXCEPT ![e] = Some(r2)]
                     /\ running' = 0
                     /\ hist' = Append(hist, r2)
             ELSE IF ~t.replaced
             THEN /\ run' = [run EXCEPT ![e] = Some(Advance(r1))]
                  /\ UNCHANGED << running, hist >>
             ELSE LET r2 == [r1 EXCEPT !.pop = Replace(r.pop, r.i, t.trial),
                                       !.bestfit = IF t.improved \/ r.alias = r.i
                                                   THEN t.trial ELSE r.bestfit]
                      r3 == IF t.improved
                            THEN [r2 EXCEPT !.alias = 0,
                                            !.lst_err = t.log.trial_err,
                                            !.emitted = Append(r.emitted,
                                                [vec |-> t.trial,
                                                 cost |-> t.log.trial_err])]
                            ELSE r2
                      r4 == Advance(r3)
                  IN IF t.improved /\ r.mode = "stream"
                     THEN /\ run' = [run EXCEPT ![e] = Some([r4 EXCEPT !.pc = "yield"])]
                          /\ running' = 0
                          /\ UNCHANGED hist
                     ELSE /\ run' = [run EXCEPT ![e] = Some(r4)]
                          /\ UNCHANGED << running, hist >>
    /\ UNCHANGED << g_kmut, g_bounds, obj, nruns >>

\* next() on a generator suspended at the yield of line 121.
Resume(e) ==
    /\ running = 0
    /\ IsSome(run[e])
    /\ Get(run[e]).pc = "yield"
    /\ run' = [run EXCEPT ![e] = Some([Get(run[e]) EXCEPT !.pc = "loop"])]
    /\ running' = e
    /\ UNCHANGED << np_random, g_kmut, g_bounds, obj, hist, nruns >>

\* The result property (lines 123-126) on the drained stream:
\* res, err = zip(*tuple(...)) and res[-1].
ResultOf(emitted) ==
    IF Len(emitted) = 0
    THEN [err |-> "ValueError", retval |-> None]
    ELSE [err |-> "", retval |-> Some(emitted[Len(emitted)].vec)]

\* The outer loop is exhausted: the generator ends and, in mode "result",
\* the property returns.
Finish(e) ==
    /\ running = e
    /\ LET r == Get(run[e])
           res == ResultOf(r.emitted)
           r1 == IF r.mode = "result"
                 THEN [r EXCEPT !.pc = "done", !.err = res.err,
                                !.retval = res.retval]
                 ELSE [r EXCEPT !.pc = "done"]
       IN /\ r.pc = "loop"
          /\ ~LoopGuard(r)
          /\ run' = [run EXCEPT ![e] = Some(r1)]
          /\ hist' = Append(hist, r1)
    /\ running' = 0
    /\ UNCHANGED << np_random, g_kmut, g_bounds, obj, nruns >>

NextOver(E, C, rerun) ==
    \E e \in E :
        \/ \E c \in C : Construct(e, c)
        \/ \E mode \in {"stream", "result"}, failAt \in 0 .. MaxPop :
              Start(e, mode, failAt, rerun)
        \/ \E failAt \in {"none", "trial", "incumbent"} : InnerStep(e, failAt)
        \/ Resume(e)
        \/ Finish(e)

\* One engine, constructed and run once, over every configuration.
Init == InitOver(Engines, Globals)
Next == NextOver(Engines, Configs, FALSE)
Spec == Init /\ [][Next]_vars

\* Two engines, and up to MaxRuns runs of them in any order, over the
\* configurations of one search with a fixed seed; the notebook's kmut and
\* bounds are the ones the engines are given.
TwoConfigs ==
    { Config("sphere", Scale, 2, 4, 2, ni, Some(BndA), None, Some(k)) :
        ni \in 0 .. 1, k \in 0 .. MaxSeed }
InitTwo == InitOver(TwoEngines, { << Some(Scale), Some(BndA) >> })
NextTwo == NextOver(TwoEngines, TwoConfigs, TRUE)
SpecTwo == InitTwo /\ [][NextTwo]_vars

\* ------------------------------------------------------------- claims
Runs == {Get(run[e]) : e \in {x \in DOMAIN run : IsSome(run[x])}}

WithinBounds(x, b) == \A j \in 1 .. Len(x) : InBound(x[j], b[j])

\* A run that has initialised and stands at the start of a generation
\* (after initialisation, or after the last member of a generation).
AtGenerationEnd(r) == r.pc \in {"loop", "yield", "done"} /\ r.i = 1

\* C1: with bounds configured, after initialisation and at the end of
\* every generation every member of the population and the best-fit vector
\* lie inside the configured bounds, also with a guess and after a repair.
\* (Stated for configurations free of configuration errors.)
C1_BoundsKept ==
    \A r \in Runs :
        (AtGenerationEnd(r) /\ Truthy(r.cfg.bounds) /\ ~ConfigError(r.cfg))
        => /\ \A k \in 1 .. Len(r.pop) :
                 WithinBounds(r.pop[k], Get(r.cfg.bounds))
           /\ WithinBounds(r.bestfit, Get(r.cfg.bounds))

\* C2: the result property does not fail on an empty improvement stream:
\* it returns the initial population's least-cost member.
C2_ResultOfEmptyStream ==
    \A r \in Runs :
        (r.mode = "result" /\ r.pc = "done" /\ Len(r.emitted) = 0)
        => (r.err = "" /\ r.retval = Some(r.initbest))

\* The runs that have ended without an error.
Completed == {n \in 1 .. Len(hist) : hist[n].pc = "done"}

\* C3: with a fixed seed and a pure evaluator, two runs with the same
\* configuration have the same initial population, the same trial at
\* every inner step and the same final result, be they runs of two
\* engines or two runs of one engine.
C3_SameSeedSameRun ==
    \A m, n \in Completed :
        (hist[m].cfg = hist[n].cfg /\ IsSome(hist[m].cfg.seed))
        => /\ hist[m].initpop = hist[n].initpop
           /\ hist[m].trace = hist[n].trace
           /\ hist[m].emitted = hist[n].emitted
           /\ hist[m].bestfit = hist[n].bestfit

\* The cost of the best fit before improvement k of run r.
CostBefore(r, k) == IF k = 1 THEN r.initerr ELSE r.emitted[k - 1].cost

\* C4: the improvement stream is finite and strictly decreasing in cost:
\* every emitted pair costs less than the pair before it and less than the
\* initial best, and the best-fit cost is the last emitted cost.
C4_StreamDecreases ==
    \A r \in Runs :
        /\ Len(r.emitted) <= Len(r.trace)
        /\ Len(r.trace) <= r.cfg.niter * r.cfg.npop
        /\ \A k \in 1 .. Len(r.emitted) :
              /\ r.emitted[k].cost < CostBefore(r, k)
              /\ r.emitted[k].cost = Cost(r.cfg.func, r.emitted[k].vec)
        /\ r.lst_err = CostBefore(r, Len(r.emitted) + 1)
        /\ r.lst_err <= r.initerr

C4_Witness ==
    \E r \in Runs : r.pc = "done" /\ Len(r.emitted) >= 2

\* The step that run r has just taken, as logged.
LastStep(r) == r.trace[Len(r.trace)]

\* Run r of engine e takes an inner step in this transition.
Stepped(e) ==
    /\ IsSome(run[e])
    /\ IsSome(run'[e])
    /\ Get(run[e]).pc = "loop"
    /\ Len(Get(run'[e]).trace) = Len(Get(run[e]).trace) + 1

\* C5: greedy selection never increases a member's cost: step i replaces
\* pop[i] by the trial only if the trial costs strictly less, keeps the
\* incumbent on a tie, and changes no other member.
C5_GreedySelection ==
    [][\A e \in DOMAIN run :
          Stepped(e)
          => LET r == Get(run[e])
                 q == Get(run'[e])
                 f == r.cfg.func
                 trial == LastStep(q).step.trial
             IN /\ \A k \in 1 .. Len(r.pop) : k # r.i => q.pop[k] = r.pop[k]
                /\ q.pop[r.i] \in {r.pop[r.i], trial}
                /\ q.pop[r.i] # r.pop[r.i]
                      => Cost(f, q.pop[r.i]) < Cost(f, r.pop[r.i])
                /\ (LastStep(q).err = "" /\ Cost(f, trial) < Cost(f, r.pop[r.i]))
                      => q.pop[r.i] = trial
                /\ Cost(f, q.pop[r.i]) <= Cost(f, r.pop[r.i])]_vars

\* A step has replaced a member, and a later step has kept its incumbent
\* on a tie with a different trial.
C5_Witness ==
    \E r \in Runs :
        /\ \E n \in 1 .. Len(r.trace) :
              r.trace[n].err = "" /\ r.trace[n].step.trial_err < r.trace[n].step.ind_err
        /\ Len(r.trace) > 0
        /\ LastStep(r).err = ""
        /\ LastStep(r).step.trial_err = LastStep(r).step.ind_err
        /\ LastStep(r).step.trial # r.pop[LastStep(r).i]

\* C6: a fully drained run ends after exactly niter generations of exactly
\* one inner step per member, in index order; nothing ends it earlier or
\* later, and niter = 0 runs no inner step.
C6_ExactlyNiterGenerations ==
    \A r \in Runs :
        /\ \A n \in 1 .. Len(r.trace) :
              /\ r.trace[n].g = (n - 1) \div r.cfg.npop
              /\ r.trace[n].i = 1 + ((n - 1) % r.cfg.npop)
              /\ r.trace[n].g < r.cfg.niter
        /\ r.pc = "done" => Len(r.trace) = r.cfg.niter * r.cfg.npop

C6_Witness ==
    \E r \in Runs :
        r.pc = "done" /\ r.cfg.niter = MaxIter /\ r.cfg.npop = MaxPop
        /\ Len(r.trace) = MaxIter * MaxPop

\* C7: the generator state a run consumes is the engine's own: the first
\* run of an engine constructed with a seed starts from that seed's state
\* and initial population, whatever other engines were constructed or run
\* since its construction.
C7_OwnGenerator ==
    \A r \in Runs :
        (r.nth = 1 /\ IsSome(r.cfg.seed))
        => \A s \in SeedStates(r.cfg.seed) :
              /\ r.rng0 = s
              /\ r.initpop = population_generator(r.cfg, s).pop

\* C8: a configuration error is rejected at construction: no engine
\* exists with nparam <= 0, npop <= 0, kmut outside (0,1], kcross outside
\* [0,1] or a bound with low > high.
C8_ConfigRejected ==
    \A e \in DOMAIN obj : IsSome(obj[e]) => ~ConfigError(Get(obj[e]))

\* The run has generated its population.
Initialised(r) == Len(r.initpop) > 0

\* C9: a supplied guess is member 0 right after initialisation, with or
\* without bounds and inside or outside them, and the other members are
\* what they are without a guess.
C9_GuessIsFirst ==
    \A r \in Runs :
        (Truthy(r.cfg.guess) /\ Initialised(r))
        => /\ r.initpop[1] = Get(r.cfg.guess)
           /\ LET plain == population_generator(
                               [r.cfg EXCEPT !.guess = None], r.rng0).pop
              IN \A k \in 2 .. Len(r.initpop) : r.initpop[k] = plain[k]

C9_Witness ==
    \E r \in Runs :
        /\ Truthy(r.cfg.guess) /\ Truthy(r.cfg.bounds) /\ Initialised(r)
        /\ ~WithinBounds(Get(r.cfg.guess), Get(r.cfg.bounds))
        /\ Len(r.initpop) >= 2

\* C10: an evaluator error in an inner step reaches the caller as it is,
\* the call is not repeated, and the population and the best fit are what
\* they were before the failing call; the run is over.
C10_EvaluatorErrorPropagates ==
    [][\A e \in DOMAIN run :
          /\ (Stepped(e) /\ Get(run'[e]).err = "EvaluatorError")
             => LET r == Get(run[e])
                    q == Get(run'[e])
                IN /\ q.pop = r.pop
                   /\ q.bestfit = r.bestfit
                   /\ q.lst_err = r.lst_err
                   /\ q.emitted = r.emitted
                   /\ q.pc = "raised"
                   /\ q.retval = None
                   /\ q.calls - r.calls \in {1, 2}
                   /\ running' = 0
          /\ (IsSome(run[e]) /\ Get(run[e]).pc = "raised")
             => (IsSome(run'[e]) /\ (Get(run'[e]) = Get(run[e])
                                     \/ Get(run'[e]).nth > Get(run[e]).nth))]_vars

\* An inner step has raised the evaluator's error after an earlier step
\* of the run replaced a member.
C10_Witness ==
    \E r \in Runs :
        /\ r.err = "EvaluatorError"
        /\ Len(r.trace) >= 2
        /\ r.pop # r.initpop

\* The configuration is one the search loop is written for: four
\* parameters, at least two members, and a module-level kmut to read.
Searchable(c) ==
    /\ ~ConfigError(c)
    /\ c.nparam = NCross + 1
    /\ c.npop >= 2
    /\ IsSome(g_kmut)

\* C11: an engine constructed without bounds runs unbounded: no inner step
\* range-checks or repairs a trial component and none fails for want of
\* bounds, whatever bounds exist outside the instance.
C11_NoBoundsNoRepair ==
    [][\A e \in DOMAIN run :
          (Stepped(e) /\ ~Truthy(Get(run[e]).cfg.bounds)
              /\ Searchable(Get(run[e]).cfg))
          => LET r == Get(run[e])
                 st == LastStep(Get(run'[e]))
             IN /\ st.err \in {"", "EvaluatorError"}
                /\ st.step.trial
                      = Where(st.step.cross, st.step.mutated, r.pop[r.i])]_vars

\* C12: every inner step mutates as bestfit + kmut * (pop[r1] - pop[r2])
\* with two distinct member indices, the best fit current at that step and
\* the mutation factor the engine was constructed with.
C12_MutationUsesOwnKmut ==
    [][\A e \in DOMAIN run :
          (Stepped(e) /\ ~ConfigError(Get(run[e]).cfg)
              /\ Get(run[e]).cfg.npop >= 2)
          => LET r == Get(run[e])
                 st == LastStep(Get(run'[e]))
             IN /\ st.step.r1 \in 1 .. r.cfg.npop
                /\ st.step.r2 \in 1 .. r.cfg.npop
                /\ st.step.r1 # st.step.r2
                /\ st.step.mutated
                      = Mutate(r.bestfit, r.cfg.kmut,
                               r.pop[st.step.r1], r.pop[st.step.r2])]_vars

\* C13: for every nparam >= 1 the trial after crossover has nparam
\* components, the last one the mutated value and every other one the
\* mutated value or the current member's.
C13_CrossoverKeepsLength ==
    [][\A e \in DOMAIN run :
          (Stepped(e) /\ ~ConfigError(Get(run[e]).cfg)
              /\ Len(LastStep(Get(run'[e])).step.mutated) > 0)
          => LET r == Get(run[e])
                 n == r.cfg.nparam
                 ind == r.pop[r.i]
                 st == LastStep(Get(run'[e]))
                 mutated == st.step.mutated
                 crossed == Where(st.step.cross, mutated, ind)
             IN /\ Len(mutated) = n
                /\ Len(crossed) = n
                /\ crossed[n] = mutated[n]
                /\ \A j \in 1 .. n : crossed[j] \in {mutated[j], ind[j]}]_vars

\* The best fit of run r is a least-cost member of its population: its cost
\* is the least evaluator cost over the members, and the best-fit vector is
\* a member with that cost.
BestIsLeast(r) ==
    /\ \A k \in 1 .. Len(r.pop) : r.lst_err <= Cost(r.cfg.func, r.pop[k])
    /\ \E k \in 1 .. Len(r.pop) :
          /\ r.pop[k] = r.bestfit
          /\ Cost(r.cfg.func, r.pop[k]) = r.lst_err

\* The run got past its initialisation (lines 102-105).
PastInit(r) == ~(r.pc = "raised" /\ Len(r.trace) = 0)

\* C14: after initialisation and after every inner step the best-fit cost
\* is the least cost over the current population and the best-fit vector is
\* one of its members; a trial that beats the best fit beats its incumbent
\* too, and becomes the best fit.
C14_BestFitIsPopulationMin ==
    [][\A e \in DOMAIN run :
          /\ (IsSome(run'[e]) /\ PastInit(Get(run'[e])))
                => BestIsLeast(Get(run'[e]))
          /\ (Stepped(e) /\ LastStep(Get(run'[e])).err = ""
                /\ LastStep(Get(run'[e])).step.trial_err < Get(run[e]).lst_err)
             => LET st == LastStep(Get(run'[e])).step
                    q == Get(run'[e])
                IN /\ st.trial_err < st.ind_err
                   /\ q.lst_err = st.trial_err
                   /\ q.bestfit = st.trial
                   /\ q.pop[Get(run[e]).i] = st.trial]_vars

\* A run in which one trial became the best fit and another replaced its
\* incumbent without becoming the best fit, leaving members of unequal cost.
C14_Witness ==
    \E e \in DOMAIN run :
        /\ IsSome(run[e])
        /\ LET r == Get(run[e])
               won == {k \in 1 .. Len(r.trace) :
                          /\ r.trace[k].err = ""
                          /\ r.trace[k].step.trial_err < r.trace[k].step.ind_err}
           IN /\ r.pc # "raised"
              /\ Len(r.emitted) >= 1
              /\ Cardinality(won) > Len(r.emitted)
              /\ BestIsLeast(r)
              /\ \E k \in 1 .. Len(r.pop) :
                    Cost(r.cfg.func, r.pop[k]) > r.lst_err

====
